---- MODULE Spec2Model ----
(***************************************************************************)
(* Client-side view models of the role-management front end:               *)
(*   - RolePage / RoleListing: the role detail page and its two fetches    *)
(*   - RoleForm: the create-role form, its POST and its SWR side queries   *)
(*   - DataTableToolbar: the data-table toolbar                            *)
(* Option values (T | undefined) are sets with at most one element.        *)
(* Strings the code builds character by character are sequences of         *)
(* one-character strings.                                                  *)
(***************************************************************************)
EXTENDS Integers, Sequences, FiniteSets

\* ------------------------------------------------------------------ bounds

\* Largest number of skill records in one skill-match response.
MaxSkills == 3

\* Largest number of submit attempts of the create-role form.
MaxSubmits == 1

\* Largest number of role_skills requests that follow the first one.
MaxRoleChanges == 1

\* Largest number of entries of a toolbar column configuration.
MaxColumns == 2

\* Largest number of calendar selections reported through onChange.
MaxSelections == 2

\* ------------------------------------------------------------ option values

Undefined == {}

Some(v) == {v}

IsDefined(o) == o # {}

Get(o) == CHOOSE v \in o : TRUE

\* ------------------------------------------------------------ generic helpers

RECURSIVE SeqsUpTo(_, _)
SeqsUpTo(S, n) ==
  IF n = 0 THEN {<<>>}
  ELSE LET shorter == SeqsUpTo(S, n - 1)
       IN  shorter \cup {Append(s, x) : s \in {t \in shorter : Len(t) = n - 1}, x \in S}

\* skills.map((skill) => skill.skill_name)
SkillNames(skills) == [i \in 1..Len(skills) |-> skills[i].skill_name]

\* skills.map((skill) => skill.skill_id)
SkillIds(skills) == [i \in 1..Len(skills) |-> skills[i].skill_id]

\* Array.prototype.concat
Concat(s, t) == s \o t

Range(s) == {s[i] : i \in 1..Len(s)}

\* ------------------------------------------------------- role detail page data

RoleIds == {1, 2}

\* The skill catalog of the server: skill_id is the key, names may repeat.
SkillPool ==
  { [skill_id |-> 1, skill_name |-> "SQL"],
    [skill_id |-> 2, skill_name |-> "Go"],
    [skill_id |-> 3, skill_name |-> "SQL"] }

\* SpecificRoleInfo records the server may hold for a role listing.
RoleInfos ==
  { [role_name |-> "Engineer", role_desc |-> "builds", skills |-> <<>>,
     role_department |-> "IT", role_location |-> "SG", role_listing_desc |-> "d1"],
    [role_name |-> "Analyst", role_desc |-> "counts",
     skills |-> <<[skill_id |-> 1, skill_name |-> "SQL"]>>,
     role_department |-> "Ops", role_location |-> "MY", role_listing_desc |-> "d2"] }

\* session?.user : no session, a user without a role claim, a user with one.
Users ==
  { Undefined,
    Some([id |-> "u1", role |-> Undefined]),
    Some([id |-> "u1", role |-> Some("hr")]) }

StaffIds == {7}

\* user?.id
UserTokenOf(u) == IF IsDefined(u) THEN Some(Get(u).id) ELSE Undefined

\* user?.publicMetadata?.role
UserRoleOf(u) == IF IsDefined(u) THEN Get(u).role ELSE Undefined

\* x || ""
OrEmpty(o) == IF IsDefined(o) THEN Get(o) ELSE ""

\* String(x) of an optional string
StringOf(o) == IF IsDefined(o) THEN Get(o) ELSE "undefined"

\* Responses to GET /api/role/role_listings_info: the status, whether the body
\* parses, and the parsed mapping role-listing id -> SpecificRoleInfo.
RolesBodies == UNION {[S -> RoleInfos] : S \in SUBSET RoleIds}

RolesResponses ==
  { [ok |-> FALSE, jsonOk |-> TRUE, body |-> <<>>],
    [ok |-> TRUE, jsonOk |-> FALSE, body |-> <<>>] }
  \cup {[ok |-> TRUE, jsonOk |-> TRUE, body |-> b] : b \in RolesBodies}

\* Responses to GET /api/staff/role-skills-match/{staffId}/{roleId}.
SkillMatches ==
  { m \in [active : SeqsUpTo(SkillPool, MaxSkills),
           in_progress : SeqsUpTo(SkillPool, MaxSkills),
           unverified : SeqsUpTo(SkillPool, MaxSkills)] :
      Len(m.active) + Len(m.in_progress) + Len(m.unverified) <= MaxSkills }

EmptyMatch == [active |-> <<>>, in_progress |-> <<>>, unverified |-> <<>>]

SkillMatchResponses ==
  { [ok |-> FALSE, jsonOk |-> TRUE, body |-> [match |-> EmptyMatch]],
    [ok |-> TRUE, jsonOk |-> FALSE, body |-> [match |-> EmptyMatch]] }
  \cup {[ok |-> TRUE, jsonOk |-> TRUE, body |-> [match |-> m]] : m \in SkillMatches}

VARIABLES
  \* --- role detail page (RolePage, RoleListing)
  roleid,          \* props.params.roleid
  user,            \* session?.user
  staffId,         \* useContext(AuthContext)
  page,            \* lifecycle of RolePage: "initial", "mounted", "unmounted"
  data,            \* RolePage state: PageData | undefined
  rolesFetch,      \* the role_listings_info request: "idle", "pending", "done", "failed"
  listing,         \* lifecycle of RoleListing: "initial", "mounted", "unmounted"
  roleInfo,        \* RoleListing state, initialised from props.data
  skillInfo,       \* RoleListing state: SkillInfo | undefined
  skillFetch,      \* the role-skills-match request: "idle", "pending", "done", "failed"
  skillResponse,   \* the response the role-skills-match request settled with
  requests,        \* every HTTP request issued, in order
  console,         \* console.log output
  \* --- create-role form (RoleForm)
  form,            \* lifecycle of RoleForm: "initial", "mounted"
  values,          \* the form values held by useForm
  submitCount,     \* formState.submitCount: submit attempts so far
  postsInFlight,   \* number of role_listing POSTs not yet settled
  settled,         \* the outcomes the role_listing POSTs settled with, in order
  toasts,          \* the notifications surfaced by toast(), in order
  skillIdList,     \* RoleForm state: the options of the skill multi-select
  swrCache,        \* the SWR cache of role_skills data, by role_id
  swrPending,      \* the role_ids whose role_skills request is in flight
  managerFetch,    \* the /api/staff/manager request: "idle", "pending", "done", "failed"
  managerData,     \* useSWR data of /api/staff/manager
  managerDetails,  \* RoleForm state: the manager options
  \* --- data-table toolbar (DataTableToolbar)
  tableColumns,      \* the ids of the columns the table has
  searchableColumns, \* prop: the ids of the configured searchable columns
  filterableColumns, \* prop: the ids of the configured filterable columns
  columnFilters,     \* table.getState().columnFilters, as <<id, value>> pairs
  toolbar,           \* what DataTableToolbar last rendered, if it has rendered
  toolbarHandler,    \* the toolbar handler that ran last: "none", "input", "reset"
  \* --- date-range picker (DatePickerWithRange)
  picker,            \* lifecycle of DatePickerWithRange: "initial", "mounted"
  pickerValue,       \* prop value: DateRange | undefined
  hasOnChange,       \* whether the onChange prop is given
  pickerDate,        \* DatePickerWithRange state date: DateRange | undefined
  onChangeCalls      \* the arguments onChange was called with, in order

pageVars ==
  <<roleid, user, staffId, page, data, rolesFetch, listing, roleInfo, skillInfo,
    skillFetch, skillResponse>>

formVars ==
  <<form, values, submitCount, postsInFlight, settled, toasts, skillIdList,
    swrCache, swrPending, managerFetch, managerData, managerDetails>>

toolbarVars ==
  <<tableColumns, searchableColumns, filterableColumns, columnFilters, toolbar,
    toolbarHandler>>

pickerVars == <<picker, pickerValue, hasOnChange, pickerDate, onChangeCalls>>

vars == <<pageVars, formVars, toolbarVars, pickerVars, requests, console>>

\* ------------------------------------------------------------ HTTP requests

\* A request: method, path, query, headers (a set of <<name, value>>), body.
Request(method, path, query, headers, body) ==
  [method |-> method, path |-> path, query |-> query, headers |-> headers, body |-> body]

HasHeader(req, name) == \E h \in req.headers : h[1] = name

RequestsTo(path) == {i \in 1..Len(requests) : requests[i].path = path}

\* ------------------------------------------------------------ RolePage

RoleListingsInfoPath == "/api/role/role_listings_info"

SkillMatchPath == "/api/staff/role-skills-match"

\* fetchRoles: the request of the fetch call.
FetchRolesRequest ==
  Request("GET", RoleListingsInfoPath, <<>>,
          { <<"user-token", OrEmpty(UserTokenOf(user))>>,
            <<"role", OrEmpty(UserRoleOf(user))>> },
          <<>>)

\* RolePageMount, had RolePage issued both fetches in its own mount effect.
RolePageMountIssuesBoth ==
  /\ page = "initial"
  /\ page' = "mounted"
  /\ rolesFetch' = "pending"
  /\ skillFetch' = "pending"
  /\ requests' = Append(requests, FetchRolesRequest)
  /\ UNCHANGED <<roleid, user, staffId, data, listing, roleInfo, skillInfo,
                 skillResponse, console>>
  /\ UNCHANGED <<formVars, toolbarVars, pickerVars>>

\* useEffect(() => { fetchRoles(); }, []) of RolePage.
RolePageMount ==
  /\ page = "initial"
  /\ page' = "mounted"
  /\ rolesFetch' = "pending"
  /\ requests' = Append(requests, FetchRolesRequest)
  /\ UNCHANGED <<roleid, user, staffId, data, listing, roleInfo, skillInfo,
                 skillFetch, skillResponse, console>>
  /\ UNCHANGED <<formVars, toolbarVars, pickerVars>>

\* The display shape built from apiData[roleid].
PageDataOf(rid, info) ==
  [roleid |-> rid,
   roleName |-> info.role_name,
   roleDescription |-> info.role_desc,
   skillsRequired |-> SkillNames(info.skills),
   roleDepartment |-> info.role_department,
   roleLocation |-> info.role_location,
   roleListingDesc |-> info.role_listing_desc]

\* Whether the two .then callbacks of fetchRoles run to the end: the status is
\* ok, the body parses, and apiData[roleid] exists (else a property read throws).
FetchRolesSucceeds(resp) == resp.ok /\ resp.jsonOk /\ roleid \in DOMAIN resp.body

\* SetState, had React applied the update of an unmounted component.
SetStateAlways(lifecycle, old, new) == new

\* setState of a component: dropped once the component is unmounted.
SetState(lifecycle, old, new) == IF lifecycle = "mounted" THEN new ELSE old

\* FetchRolesCatch, had the handler issued the request again.
FetchRolesCatchRetries ==
  /\ console' = Append(console, "Error fetching role details:")
  /\ rolesFetch' = "failed"
  /\ requests' = Append(requests, FetchRolesRequest)
  /\ UNCHANGED data

\* .catch of fetchRoles: the error is logged, nothing else happens.
FetchRolesCatch ==
  /\ console' = Append(console, "Error fetching role details:")
  /\ rolesFetch' = "failed"
  /\ UNCHANGED <<data, requests>>

\* The role_listings_info request settles with resp.
FetchRolesSettle(resp) ==
  /\ rolesFetch = "pending"
  /\ IF FetchRolesSucceeds(resp)
     THEN /\ data' = SetState(page, data, Some(PageDataOf(roleid, resp.body[roleid])))
          /\ rolesFetch' = "done"
          /\ UNCHANGED <<console, requests>>
     ELSE FetchRolesCatch
  /\ UNCHANGED <<roleid, user, staffId, page, listing, roleInfo, skillInfo,
                 skillFetch, skillResponse>>
  /\ UNCHANGED <<formVars, toolbarVars, pickerVars>>

\* The render of RolePage: RoleListing is rendered once data is defined.
RendersRoleListing == IsDefined(data)

\* ------------------------------------------------------------ RoleListing

\* fetchRoleSkillMatch: the request of the fetch call (its headers are commented out).
FetchRoleSkillMatchRequest(info) ==
  Request("GET", SkillMatchPath, <<staffId, info.roleid>>, {}, <<>>)

\* First render of RoleListing and its useEffect(() => { fetchRoleSkillMatch(); }, []).
RoleListingMount ==
  /\ page = "mounted"
  /\ listing = "initial"
  /\ RendersRoleListing
  /\ listing' = "mounted"
  /\ roleInfo' = data
  /\ skillFetch' = "pending"
  /\ requests' = Append(requests, FetchRoleSkillMatchRequest(Get(data)))
  /\ UNCHANGED <<roleid, user, staffId, page, data, rolesFetch, skillInfo,
                 skillResponse, console>>
  /\ UNCHANGED <<formVars, toolbarVars, pickerVars>>

\* SkillInfoOf, had in_progress been left out of the obtained skills.
SkillInfoOfActiveOnly(match) ==
  [skillObtained |-> SkillNames(match.active),
   skillMissing |-> SkillNames(match.unverified)]

\* SkillInfoOf, had in_progress been counted as missing as well.
SkillInfoOfInProgressMissing(match) ==
  [skillObtained |-> SkillNames(Concat(match.active, match.in_progress)),
   skillMissing |-> SkillNames(Concat(match.in_progress, match.unverified))]

\* The display shape built from apiData.match.
SkillInfoOf(match) ==
  LET obtained == Concat(match.active, match.in_progress)
  IN  [skillObtained |-> SkillNames(obtained),
       skillMissing |-> SkillNames(match.unverified)]

\* .catch of fetchRoleSkillMatch: the error is logged, nothing else happens.
FetchRoleSkillMatchCatch ==
  /\ console' = Append(console, "Error fetching role details:")
  /\ skillFetch' = "failed"
  /\ UNCHANGED <<skillInfo, requests>>

\* The role-skills-match request settles with resp.
FetchRoleSkillMatchSettle(resp) ==
  /\ skillFetch = "pending"
  /\ skillResponse' = Some(resp)
  /\ IF resp.ok /\ resp.jsonOk
     THEN /\ skillInfo' = SetState(listing, skillInfo, Some(SkillInfoOf(resp.body.match)))
          /\ skillFetch' = "done"
          /\ UNCHANGED <<console, requests>>
     ELSE FetchRoleSkillMatchCatch
  /\ UNCHANGED <<roleid, user, staffId, page, data, rolesFetch, listing, roleInfo>>
  /\ UNCHANGED <<formVars, toolbarVars, pickerVars>>

\* Navigation away: RolePage unmounts, and RoleListing with it.
RolePageUnmount ==
  /\ page = "mounted"
  /\ page' = "unmounted"
  /\ listing' = IF listing = "mounted" THEN "unmounted" ELSE listing
  /\ UNCHANGED <<roleid, user, staffId, data, rolesFetch, roleInfo, skillInfo,
                 skillFetch, skillResponse, requests, console>>
  /\ UNCHANGED <<formVars, toolbarVars, pickerVars>>

\* What RolePage shows: its placeholder until data is defined.
RolePageShowsLoading == page = "mounted" /\ ~IsDefined(data)

\* What RoleListing shows in place of SkillMatch until skillInfo is defined.
RoleListingShowsLoading == listing = "mounted" /\ ~IsDefined(skillInfo)

\* ------------------------------------------------------------ strings

Digits == <<"0", "1", "2", "3", "4", "5", "6", "7", "8", "9">>

IsDigit(c) == \E d \in 1..10 : Digits[d] = c

DigitValue(c) == (CHOOSE d \in 1..10 : Digits[d] = c) - 1

\* String(n) of a non-negative integer: its decimal digits, no padding.
RECURSIVE ToString(_)
ToString(n) ==
  IF n < 10 THEN <<Digits[n + 1]>>
  ELSE ToString(n \div 10) \o <<Digits[(n % 10) + 1]>>

\* String.prototype.padStart(targetLength, padString) with a one-character pad.
RECURSIVE PadStart(_, _, _)
PadStart(str, targetLength, pad) ==
  IF Len(str) >= targetLength THEN str
  ELSE PadStart(<<pad>> \o str, targetLength, pad)

\* parseInt(str, 10) of a string without sign or blanks: the value of its
\* leading digits, NaN (Undefined) when it has none.
RECURSIVE ParseDigits(_, _)
ParseDigits(str, acc) ==
  IF str = <<>> \/ ~IsDigit(Head(str)) THEN acc
  ELSE ParseDigits(Tail(str), 10 * acc + DigitValue(Head(str)))

ParseInt(str) ==
  IF str = <<>> \/ ~IsDigit(Head(str)) THEN Undefined ELSE Some(ParseDigits(str, 0))

\* ------------------------------------------------------------ RoleForm data

\* Dates the date picker can hand to the form, by their UTC fields
\* (getUTCFullYear, getUTCMonth, getUTCDate, getUTCHours, getUTCMinutes,
\* getUTCSeconds).
StartDates ==
  { [year |-> 2023, month |-> 0, date |-> 5, hours |-> 4, minutes |-> 7, seconds |-> 9],
    [year |-> 999, month |-> 11, date |-> 31, hours |-> 23, minutes |-> 59, seconds |-> 59] }

\* The roles prop: the role ids the role combobox offers, as strings.
RoleNames == {<<"1">>, <<"2">>}

\* The values a form control can give its field.
FieldValues(f) ==
  CASE f = "roleName" -> {<<>>} \cup RoleNames
    [] f = "listingId" -> {Undefined, Some(7)}
    [] f = "roleManager" -> {Undefined, Some(<<"5">>)}
    [] f = "location" -> {Undefined, Some("Singapore")}
    [] f = "departments" -> {Undefined, Some("IT")}
    [] f = "startDate" -> {Undefined} \cup {Some(d) : d \in StartDates}

Fields == {"roleName", "listingId", "roleManager", "location", "departments", "startDate"}

\* defaultValues of useForm.
defaultValues ==
  [roleName |-> <<>>, roleDescription |-> "", listingId |-> Undefined,
   roleManager |-> Undefined, location |-> Undefined, departments |-> Undefined,
   skills |-> Undefined, startDate |-> Undefined]

\* The allSkills prop: the skill catalog.
allSkills ==
  << [skill_id |-> 1, skill_name |-> "SQL"], [skill_id |-> 2, skill_name |-> "Go"] >>

\* Outcomes of POST /api/role/role_listing: a network rejection, a non-success
\* status with its status text, a success whose body does not parse, a success.
PostResponses ==
  { [rejected |-> TRUE, ok |-> FALSE, jsonOk |-> FALSE, statusText |-> ""],
    [rejected |-> FALSE, ok |-> FALSE, jsonOk |-> TRUE, statusText |-> "Internal Server Error"],
    [rejected |-> FALSE, ok |-> FALSE, jsonOk |-> TRUE, statusText |-> ""],
    [rejected |-> FALSE, ok |-> TRUE, jsonOk |-> FALSE, statusText |-> "OK"],
    [rejected |-> FALSE, ok |-> TRUE, jsonOk |-> TRUE, statusText |-> "OK"] }

\* Outcomes of GET /api/role/role_skills: RoleSkillAPIResponse, whose
\* role_skills may be absent, or a failure.
RoleSkillsResponses ==
  { [ok |-> FALSE, data |-> [role_skills |-> Undefined]],
    [ok |-> TRUE, data |-> [role_skills |-> Undefined]],
    [ok |-> TRUE, data |-> [role_skills |-> Some(<<>>)]],
    [ok |-> TRUE, data |-> [role_skills |-> Some(<<[skill_id |-> 2, skill_name |-> "Go"]>>)]],
    [ok |-> TRUE, data |-> [role_skills |->
        Some(<<[skill_id |-> 3, skill_name |-> "SQL"], [skill_id |-> 1, skill_name |-> "SQL"]>>)]] }

\* Outcomes of GET /api/staff/manager.
ManagerResponses ==
  { [ok |-> FALSE, data |-> <<>>],
    [ok |-> TRUE, data |-> <<>>],
    [ok |-> TRUE, data |-> <<[staff_id |-> 5, fname |-> "Ann", lname |-> "Lee"]>>] }

\* ------------------------------------------------------------ RoleForm

RoleListingPath == "/api/role/role_listing"

RoleSkillsPath == "/api/role/role_skills"

ManagerPath == "/api/staff/manager"

\* roleFormSchema: every field but the description and the skills is
\* required, and the ids must parse as numbers.
SchemaAccepts(v) ==
  /\ IsDefined(ParseInt(v.roleName))
  /\ IsDefined(v.listingId)
  /\ IsDefined(v.roleManager) /\ IsDefined(ParseInt(Get(v.roleManager)))
  /\ IsDefined(v.location)
  /\ IsDefined(v.departments)
  /\ IsDefined(v.startDate)

formatDateToISOWithoutZ(date) ==
  ToString(date.year) \o <<"-">> \o PadStart(ToString(date.month + 1), 2, "0")
    \o <<"-">> \o PadStart(ToString(date.date), 2, "0")
    \o <<"T">> \o PadStart(ToString(date.hours), 2, "0")
    \o <<":">> \o PadStart(ToString(date.minutes), 2, "0")
    \o <<":">> \o PadStart(ToString(date.seconds), 2, "0")

\* onSubmit: transformedData.
transformedData(d) ==
  [role_listing_id |-> d.listingId,
   role_id |-> ParseInt(d.roleName),
   role_listing_desc |-> d.roleDescription,
   role_listing_source |-> IF IsDefined(d.roleManager) THEN ParseInt(Get(d.roleManager))
                           ELSE Undefined,
   role_listing_open |-> formatDateToISOWithoutZ(Get(d.startDate)),
   role_listing_creator |-> staffId,
   role_department |-> d.departments,
   role_location |-> d.location]

\* onSubmit: the request of the fetch call.
PostRequest(d) ==
  Request("POST", RoleListingPath, <<>>,
          { <<"Content-Type", "application/json">>,
            <<"role", StringOf(UserRoleOf(user))>> },
          transformedData(d))

\* onSubmit(data): one POST is issued; reading the UTC fields of a missing
\* date throws before the fetch call.
onSubmit(d) ==
  IF IsDefined(d.startDate)
  THEN /\ requests' = Append(requests, PostRequest(d))
       /\ postsInFlight' = postsInFlight + 1
  ELSE UNCHANGED <<requests, postsInFlight>>

\* handleSubmit, had it called onSubmit without consulting the resolver.
handleSubmitUnvalidated ==
  /\ form = "mounted"
  /\ submitCount < MaxSubmits
  /\ submitCount' = submitCount + 1
  /\ onSubmit(values)
  /\ UNCHANGED <<form, values, settled, toasts, skillIdList, swrCache, swrPending,
                 managerFetch, managerData, managerDetails>>
  /\ UNCHANGED <<pickerVars, toolbarVars, pageVars, console>>

\* form.handleSubmit(onSubmit): the resolver validates the values and onSubmit
\* runs only when they pass.
handleSubmit ==
  /\ form = "mounted"
  /\ submitCount < MaxSubmits
  /\ submitCount' = submitCount + 1
  /\ IF SchemaAccepts(values)
     THEN onSubmit(values)
     ELSE UNCHANGED <<requests, postsInFlight>>
  /\ UNCHANGED <<form, values, settled, toasts, skillIdList, swrCache, swrPending,
                 managerFetch, managerData, managerDetails>>
  /\ UNCHANGED <<pickerVars, toolbarVars, pageVars, console>>

SuccessToast ==
  [variant |-> "default", title |-> "Role Successfully Created!",
   description |-> "formattedDate"]

ErrorToast(message) ==
  [variant |-> "destructive", title |-> "Error creating role!", description |-> message]

\* ToastFor, had the chain not waited for res.json() of an ok response.
ToastForBodyUnread(resp) ==
  IF resp.rejected THEN ErrorToast("Failed to fetch")
  ELSE IF ~resp.ok THEN ErrorToast(resp.statusText)
  ELSE SuccessToast

\* ToastFor, had the error handler reported a fixed message.
ToastForFixedMessage(resp) ==
  IF resp.rejected THEN ErrorToast("Failed to fetch")
  ELSE IF ~resp.ok THEN ErrorToast("Network error")
  ELSE IF ~resp.jsonOk THEN ErrorToast("Unexpected end of JSON input")
  ELSE SuccessToast

\* The notification the promise chain of onSubmit ends with: a rejected fetch
\* and a failed res.json() reach .catch with their own message, a non-ok
\* status with res.statusText.
ToastFor(resp) ==
  IF resp.rejected THEN ErrorToast("Failed to fetch")
  ELSE IF ~resp.ok THEN ErrorToast(resp.statusText)
  ELSE IF ~resp.jsonOk THEN ErrorToast("Unexpected end of JSON input")
  ELSE SuccessToast

\* One role_listing POST settles with resp.
PostSettle(resp) ==
  /\ postsInFlight > 0
  /\ postsInFlight' = postsInFlight - 1
  /\ settled' = Append(settled, resp)
  /\ toasts' = Append(toasts, ToastFor(resp))
  /\ UNCHANGED <<form, values, submitCount, skillIdList, swrCache, swrPending,
                 managerFetch, managerData, managerDetails>>
  /\ UNCHANGED <<pickerVars, toolbarVars, pageVars, requests, console>>

\* useSWR(role_skills): the request for the key built from roleName.
RoleSkillsRequest(roleName) ==
  Request("GET", RoleSkillsPath, <<"role_id", roleName>>,
          {<<"role", StringOf(UserRoleOf(user))>>}, <<>>)

\* useSWR(manager): the request made through the plain fetcher.
ManagerRequest == Request("GET", ManagerPath, <<>>, {}, <<>>)

\* The data useSWR(role_skills) returns for the key built from roleName.
roleSkillsData(cache, roleName) == cache[roleName]

\* Whether the effect on [roleSkillsData, allSkills] gets past its guards.
EffectApplies(rsd) == IsDefined(rsd) /\ IsDefined(Get(rsd).role_skills)

\* filteredSkills of the effect: the catalog entries whose id is associated.
filteredSkills(rsd) ==
  LET associatedSkillIds == SkillIds(Get(Get(rsd).role_skills))
  IN  SelectSeq(allSkills, LAMBDA skill : skill.skill_id \in Range(associatedSkillIds))

\* The label/value pairs the effect puts into the skills field.
SkillOptions(skills) ==
  [i \in 1..Len(skills) |->
     [value |-> ToString(skills[i].skill_id), label |-> skills[i].skill_name]]

\* The effect on [roleSkillsData, allSkills], run when roleSkillsData went
\* from old to new: v and list are the form values and skillIdList before it.
ValuesAfterEffect(old, new, v) ==
  IF new # old /\ EffectApplies(new)
  THEN [v EXCEPT !.skills = Some(SkillOptions(filteredSkills(new)))]
  ELSE v

SkillIdListAfterEffect(old, new, list) ==
  IF new # old /\ EffectApplies(new) THEN filteredSkills(new) ELSE list

\* Number of role_skills requests issued so far.
RoleSkillsRequested == Cardinality(RequestsTo(RoleSkillsPath))

\* First render of RoleForm: both useSWR hooks issue their request; the
\* role_skills key is built from the current roleName.
RoleFormMount ==
  /\ form = "initial"
  /\ form' = "mounted"
  /\ requests' = requests \o <<ManagerRequest, RoleSkillsRequest(values.roleName)>>
  /\ managerFetch' = "pending"
  /\ swrPending' = swrPending \cup {values.roleName}
  /\ UNCHANGED <<values, submitCount, postsInFlight, settled, toasts, skillIdList,
                 swrCache, managerData, managerDetails>>
  /\ UNCHANGED <<pickerVars, toolbarVars, pageVars, console>>

\* A form control changes field f to v. RoleForm renders again; a changed
\* roleName changes the role_skills key, for which useSWR issues a request
\* unless one is in flight, and the effect sees the data cached for the new key.
ChangeField(f, v) ==
  /\ form = "mounted"
  /\ values[f] # v
  /\ LET edited == [values EXCEPT ![f] = v]
         old == roleSkillsData(swrCache, values.roleName)
         new == roleSkillsData(swrCache, edited.roleName)
     IN  /\ values' = ValuesAfterEffect(old, new, edited)
         /\ skillIdList' = SkillIdListAfterEffect(old, new, skillIdList)
  /\ IF f = "roleName"
     THEN /\ RoleSkillsRequested <= MaxRoleChanges
          /\ IF v \in swrPending
             THEN UNCHANGED <<requests, swrPending>>
             ELSE /\ requests' = Append(requests, RoleSkillsRequest(v))
                  /\ swrPending' = swrPending \cup {v}
     ELSE UNCHANGED <<requests, swrPending>>
  /\ UNCHANGED <<form, submitCount, postsInFlight, settled, toasts, swrCache,
                 managerFetch, managerData, managerDetails>>
  /\ UNCHANGED <<pickerVars, toolbarVars, pageVars, console>>

\* The role_skills request for key settles with resp.
RoleSkillsSettle(key, resp) ==
  /\ key \in swrPending
  /\ swrPending' = swrPending \ {key}
  /\ swrCache' = IF resp.ok THEN [swrCache EXCEPT ![key] = Some(resp.data)] ELSE swrCache
  /\ LET old == roleSkillsData(swrCache, values.roleName)
         new == roleSkillsData(swrCache', values.roleName)
     IN  /\ values' = ValuesAfterEffect(old, new, values)
         /\ skillIdList' = SkillIdListAfterEffect(old, new, skillIdList)
  /\ UNCHANGED <<form, submitCount, postsInFlight, settled, toasts,
                 managerFetch, managerData, managerDetails>>
  /\ UNCHANGED <<pickerVars, toolbarVars, pageVars, requests, console>>

\* The manager request settles with resp; the effect on [user?.id,
\* managerData] copies defined data into managerDetails.
ManagerSettle(resp) ==
  /\ managerFetch = "pending"
  /\ IF resp.ok
     THEN /\ managerFetch' = "done"
          /\ managerData' = Some(resp.data)
          /\ managerDetails' = resp.data
     ELSE /\ managerFetch' = "failed"
          /\ UNCHANGED <<managerData, managerDetails>>
  /\ UNCHANGED <<form, values, submitCount, postsInFlight, settled, toasts,
                 skillIdList, swrCache, swrPending>>
  /\ UNCHANGED <<pickerVars, toolbarVars, pageVars, requests, console>>

\* ------------------------------------------------------------ DataTableToolbar

\* The column sets a table can have; a column id is never empty.
TableColumnSets == {{}, {"roleName"}, {"roleName", "department"}}

\* The id of a configured column: a column name or a falsy id (Undefined).
ConfigIds == {Undefined, Some("roleName"), Some("department"), Some("salary")}

\* The texts an input can be given.
FilterTexts == {"", "eng"}

\* table.getColumn(id): the column, or undefined when the table has none.
getColumn(id) == IF id \in tableColumns THEN Some(id) ELSE Undefined

\* column.id ? String(column.id) : ""
LookupId(id) == IF IsDefined(id) THEN Get(id) ELSE ""

\* column.getFilterValue() of a column the table has.
getFilterValue(filters, id) ==
  IF \E f \in filters : f[1] = id
  THEN Some((CHOOSE f \in filters : f[1] = id)[2])
  ELSE Undefined

\* The Input of one searchable column, bound to the column's filter value.
InputControl(id, filters) ==
  [kind |-> "input", column |-> LookupId(id),
   value |-> OrEmpty(getFilterValue(filters, StringOf(id)))]

\* The DataTableFacetedFilter of one filterable column.
FacetControl(id) == [kind |-> "facet", column |-> LookupId(id), value |-> ""]

\* ControlsOf, had the toolbar rendered every configured column.
RECURSIVE ControlsOfUnchecked(_, _, _)
ControlsOfUnchecked(columns, kind, filters) ==
  IF columns = <<>> THEN <<>>
  ELSE <<IF kind = "input" THEN InputControl(Head(columns), filters)
         ELSE FacetControl(Head(columns))>>
       \o ControlsOfUnchecked(Tail(columns), kind, filters)

\* columns.map(column => table.getColumn(...) && <control/>): the controls of
\* the configured columns the table has, in order.
RECURSIVE ControlsOf(_, _, _)
ControlsOf(columns, kind, filters) ==
  IF columns = <<>> THEN <<>>
  ELSE (IF IsDefined(getColumn(LookupId(Head(columns))))
        THEN <<IF kind = "input" THEN InputControl(Head(columns), filters)
               ELSE FacetControl(Head(columns))>>
        ELSE <<>>)
       \o ControlsOf(Tail(columns), kind, filters)

\* The render of DataTableToolbar for the given column filters.
DataTableToolbar(filters) ==
  [controls |-> ControlsOf(searchableColumns, "input", filters)
                  \o ControlsOf(filterableColumns, "facet", filters),
   isFiltered |-> Cardinality(filters) > 0]

\* First render of the toolbar.
ToolbarRender ==
  /\ ~IsDefined(toolbar)
  /\ toolbar' = Some(DataTableToolbar(columnFilters))
  /\ UNCHANGED <<tableColumns, searchableColumns, filterableColumns, columnFilters,
                 toolbarHandler>>
  /\ UNCHANGED <<pageVars, formVars, pickerVars, requests, console>>

\* column.setFilterValue(value): an empty text removes the column's filter.
setFilterValue(filters, id, value) ==
  LET others == {f \in filters : f[1] # id}
  IN  IF value = "" THEN others ELSE others \cup {<<id, value>>}

\* onChange of the i-th rendered control, an Input: the filter value of its
\* column is set and the toolbar renders again.
InputChange(i, text) ==
  /\ IsDefined(toolbar)
  /\ i \in 1..Len(Get(toolbar).controls)
  /\ Get(toolbar).controls[i].kind = "input"
  /\ columnFilters' = setFilterValue(columnFilters, Get(toolbar).controls[i].column, text)
  /\ columnFilters' # columnFilters
  /\ toolbar' = Some(DataTableToolbar(columnFilters'))
  /\ toolbarHandler' = "input"
  /\ UNCHANGED <<tableColumns, searchableColumns, filterableColumns>>
  /\ UNCHANGED <<pageVars, formVars, pickerVars, requests, console>>

\* table.resetColumnFilters(): the column filters go back to the table's
\* initial ones, of which the table has none.
resetColumnFilters(filters) == {}

\* ResetClick, had the button cleared the filter of the first searchable
\* column only.
ResetClickFirstColumnOnly ==
  /\ IsDefined(toolbar)
  /\ Get(toolbar).isFiltered
  /\ columnFilters' =
       IF searchableColumns = <<>> THEN columnFilters
       ELSE setFilterValue(columnFilters, LookupId(Head(searchableColumns)), "")
  /\ toolbar' = Some(DataTableToolbar(columnFilters'))
  /\ toolbarHandler' = "reset"
  /\ UNCHANGED <<tableColumns, searchableColumns, filterableColumns>>
  /\ UNCHANGED <<pageVars, formVars, pickerVars, requests, console>>

\* onClick of the Reset button, rendered while isFiltered:
\* table.resetColumnFilters(), and the toolbar renders again.
ResetClick ==
  /\ IsDefined(toolbar)
  /\ Get(toolbar).isFiltered
  /\ columnFilters' = resetColumnFilters(columnFilters)
  /\ toolbar' = Some(DataTableToolbar(columnFilters'))
  /\ toolbarHandler' = "reset"
  /\ UNCHANGED <<tableColumns, searchableColumns, filterableColumns>>
  /\ UNCHANGED <<pageVars, formVars, pickerVars, requests, console>>

\* ------------------------------------------------------------ DatePickerWithRange

\* DateRange | undefined, with days numbered: no range, an open range, two
\* closed ranges.
DateRanges ==
  { Undefined,
    Some([from |-> Some(1), to |-> Undefined]),
    Some([from |-> Some(1), to |-> Some(8)]),
    Some([from |-> Some(15), to |-> Some(20)]) }

\* First render: useState(value), then the effect on [value] runs setDate(value).
DatePickerMount ==
  /\ picker = "initial"
  /\ picker' = "mounted"
  /\ pickerDate' = pickerValue
  /\ UNCHANGED <<pickerValue, hasOnChange, onChangeCalls>>
  /\ UNCHANGED <<pageVars, formVars, toolbarVars, requests, console>>

\* ValueChange, had the effect run on mount only.
ValueChangeWithoutSync(newValue) ==
  /\ picker = "mounted"
  /\ newValue # pickerValue
  /\ pickerValue' = newValue
  /\ UNCHANGED <<picker, hasOnChange, pickerDate, onChangeCalls>>
  /\ UNCHANGED <<pageVars, formVars, toolbarVars, requests, console>>

\* The parent renders the picker with another value: the effect on [value]
\* runs setDate(value).
ValueChange(newValue) ==
  /\ picker = "mounted"
  /\ newValue # pickerValue
  /\ pickerValue' = newValue
  /\ pickerDate' = newValue
  /\ UNCHANGED <<picker, hasOnChange, onChangeCalls>>
  /\ UNCHANGED <<pageVars, formVars, toolbarVars, requests, console>>

\* handleDateChange(selectedDateRange): onSelect of the calendar.
handleDateChange(selectedDateRange) ==
  /\ picker = "mounted"
  /\ pickerDate' = selectedDateRange
  /\ IF hasOnChange
     THEN /\ Len(onChangeCalls) < MaxSelections
          /\ onChangeCalls' = Append(onChangeCalls, selectedDateRange)
     ELSE /\ selectedDateRange # pickerDate
          /\ UNCHANGED onChangeCalls
  /\ UNCHANGED <<picker, pickerValue, hasOnChange>>
  /\ UNCHANGED <<pageVars, formVars, toolbarVars, requests, console>>

\* ------------------------------------------------------------ specification

\* The signed-in session, shared by every component.
SessionInit ==
  /\ user \in Users
  /\ staffId \in StaffIds
  /\ requests = <<>>
  /\ console = <<>>

\* RolePage before its first render, for the route parameter rid.
RolePageInit(rid) ==
  /\ roleid = rid
  /\ page = "initial"
  /\ data = Undefined
  /\ rolesFetch = "idle"
  /\ listing = "initial"
  /\ roleInfo = Undefined
  /\ skillInfo = Undefined
  /\ skillFetch = "idle"
  /\ skillResponse = Undefined

\* RoleForm before its first render.
RoleFormInit ==
  /\ form = "initial"
  /\ values = defaultValues
  /\ submitCount = 0
  /\ postsInFlight = 0
  /\ settled = <<>>
  /\ toasts = <<>>
  /\ skillIdList = <<>>
  /\ swrCache = [r \in {<<>>} \cup RoleNames |-> Undefined]
  /\ swrPending = {}
  /\ managerFetch = "idle"
  /\ managerData = Undefined
  /\ managerDetails = <<>>

\* DataTableToolbar before its first render, for a table with the given
\* columns and the given column configurations.
ToolbarInit(columns, searchable, filterable) ==
  /\ tableColumns = columns
  /\ searchableColumns = searchable
  /\ filterableColumns = filterable
  /\ columnFilters = {}
  /\ toolbar = Undefined
  /\ toolbarHandler = "none"

\* DatePickerWithRange before its first render, for the given props.
DatePickerInit(initialValue, withOnChange) ==
  /\ picker = "initial"
  /\ pickerValue = initialValue
  /\ hasOnChange = withOnChange
  /\ pickerDate = Undefined
  /\ onChangeCalls = <<>>

\* The role detail page, for any route parameter.
InitPage ==
  /\ SessionInit
  /\ \E rid \in RoleIds : RolePageInit(rid)
  /\ RoleFormInit
  /\ ToolbarInit({}, <<>>, <<>>)
  /\ DatePickerInit(Undefined, FALSE)

\* The create-role form.
InitForm ==
  /\ SessionInit
  /\ RolePageInit(1)
  /\ RoleFormInit
  /\ ToolbarInit({}, <<>>, <<>>)
  /\ DatePickerInit(Undefined, FALSE)

\* The data-table toolbar, for any table and any column configuration.
InitToolbar ==
  /\ SessionInit
  /\ RolePageInit(1)
  /\ RoleFormInit
  /\ \E columns \in TableColumnSets :
       \E searchable \in SeqsUpTo(ConfigIds, MaxColumns) :
         \E filterable \in SeqsUpTo(ConfigIds, MaxColumns) :
           ToolbarInit(columns, searchable, filterable)
  /\ DatePickerInit(Undefined, FALSE)

\* The date-range picker, for any initial value, with or without onChange.
InitPicker ==
  /\ SessionInit
  /\ RolePageInit(1)
  /\ RoleFormInit
  /\ ToolbarInit({}, <<>>, <<>>)
  /\ \E initialValue \in DateRanges : \E withOnChange \in BOOLEAN :
       DatePickerInit(initialValue, withOnChange)

NextPage ==
  \/ RolePageMount
  \/ \E resp \in RolesResponses : FetchRolesSettle(resp)
  \/ RoleListingMount
  \/ \E resp \in SkillMatchResponses : FetchRoleSkillMatchSettle(resp)
  \/ RolePageUnmount

SpecPage == InitPage /\ [][NextPage]_vars

\* The create-role form and its submission.
NextForm ==
  \/ RoleFormMount
  \/ \E f \in Fields : \E v \in FieldValues(f) : ChangeField(f, v)
  \/ handleSubmit
  \/ \E resp \in PostResponses : PostSettle(resp)

SpecForm == InitForm /\ [][NextForm]_vars

\* The create-role form and its side queries.
NextFormQueries ==
  \/ RoleFormMount
  \/ \E v \in FieldValues("roleName") : ChangeField("roleName", v)
  \/ \E key \in {<<>>} \cup RoleNames : \E resp \in RoleSkillsResponses :
       RoleSkillsSettle(key, resp)
  \/ \E resp \in ManagerResponses : ManagerSettle(resp)

SpecFormQueries == InitForm /\ [][NextFormQueries]_vars

\* The data-table toolbar.
NextToolbar ==
  \/ ToolbarRender
  \/ \E i \in 1..(2 * MaxColumns) : \E text \in FilterTexts : InputChange(i, text)
  \/ ResetClick

SpecToolbar == InitToolbar /\ [][NextToolbar]_vars

\* The date-range picker.
NextPicker ==
  \/ DatePickerMount
  \/ \E newValue \in DateRanges : ValueChange(newValue)
  \/ \E selectedDateRange \in DateRanges : handleDateChange(selectedDateRange)

SpecPicker == InitPicker /\ [][NextPicker]_vars

\* ------------------------------------------------------------ claims: role detail page

\* C1 (as stated): both fetches are issued when the page mounts, so once
\* RolePage is mounted the skill-match request has been issued as well.
C1_BothIssuedOnMount ==
  page = "mounted" => (rolesFetch # "idle" /\ skillFetch # "idle")

\* C1 (amended): the skill-match fetch is issued only once role metadata has
\* been committed (RoleListing is rendered only then), so skillInfo is never
\* populated while data is unresolved; and every step writes at most one of
\* the two slices: a step that changes data leaves skillInfo alone and a step
\* that changes skillInfo leaves data and roleInfo alone.
C1_SkillFetchFollowsMetadata ==
  /\ [](skillFetch # "idle" => IsDefined(data))
  /\ [](IsDefined(skillInfo) => IsDefined(data))
  /\ [][ /\ data' # data => skillInfo' = skillInfo
         /\ skillInfo' # skillInfo => (data' = data /\ roleInfo' = roleInfo) ]_vars

\* C1 witness: role metadata is committed while the skill-match request is
\* still in flight and its slice empty.
C1_Witness ==
  IsDefined(data) /\ skillFetch = "pending" /\ ~IsDefined(skillInfo)

\* C2: once the skill-match fetch has resolved with {match: {active,
\* in_progress, unverified}}, the committed skillInfo has skillObtained equal
\* to the skill_name values of active followed by those of in_progress, and
\* skillMissing equal to the skill_name values of unverified.
C2_SkillInfoIsNameProjection ==
  skillFetch = "done" =>
    /\ listing = "mounted" => IsDefined(skillInfo)
    /\ IsDefined(skillInfo) =>
         LET m == Get(skillResponse).body.match
             info == Get(skillInfo)
             na == Len(m.active)
             nb == Len(m.in_progress)
         IN  /\ Len(info.skillObtained) = na + nb
             /\ \A i \in 1..na : info.skillObtained[i] = m.active[i].skill_name
             /\ \A i \in 1..nb : info.skillObtained[na + i] = m.in_progress[i].skill_name
             /\ Len(info.skillMissing) = Len(m.unverified)
             /\ \A i \in 1..Len(m.unverified) :
                  info.skillMissing[i] = m.unverified[i].skill_name

\* C2 witness: a resolved response with differently named active and
\* in_progress skills and a non-empty unverified list has been committed.
C2_Witness ==
  /\ skillFetch = "done"
  /\ IsDefined(skillInfo)
  /\ LET m == Get(skillResponse).body.match
     IN  /\ Len(m.active) > 0 /\ Len(m.in_progress) > 0 /\ Len(m.unverified) > 0
         /\ m.active[1].skill_name # m.in_progress[1].skill_name

\* The skills (by skill_id) of one category of a match.
IdsOf(category) == {category[i].skill_id : i \in 1..Len(category)}

\* The skill names of one category of a match.
NamesOf(category) == {category[i].skill_name : i \in 1..Len(category)}

\* No skill occurs in more than one of the three categories.
PartitionDisjoint(m) ==
  /\ IdsOf(m.active) \cap IdsOf(m.in_progress) = {}
  /\ IdsOf(m.active) \cap IdsOf(m.unverified) = {}
  /\ IdsOf(m.in_progress) \cap IdsOf(m.unverified) = {}

\* No skill name occurs in more than one of the three categories.
PartitionDisjointByName(m) ==
  /\ NamesOf(m.active) \cap NamesOf(m.in_progress) = {}
  /\ NamesOf(m.active) \cap NamesOf(m.unverified) = {}
  /\ NamesOf(m.in_progress) \cap NamesOf(m.unverified) = {}

\* No entry occurs in both lists of a SkillInfo.
NoSharedEntry(info) == Range(info.skillObtained) \cap Range(info.skillMissing) = {}

\* C3 (as stated): whenever no skill occurs in more than one category of the
\* resolved response, no entry occurs in both skillObtained and skillMissing.
C3_DisjointSkillsGiveDisjointLists ==
  (skillFetch = "done" /\ IsDefined(skillInfo)
     /\ PartitionDisjoint(Get(skillResponse).body.match))
    => NoSharedEntry(Get(skillInfo))

\* C3 (amended): whenever no skill name occurs in more than one category of
\* the resolved response, no entry occurs in both skillObtained and
\* skillMissing.
C3_DisjointNamesGiveDisjointLists ==
  (skillFetch = "done" /\ IsDefined(skillInfo)
     /\ PartitionDisjointByName(Get(skillResponse).body.match))
    => NoSharedEntry(Get(skillInfo))

\* C3 witness: a response with name-disjoint, non-empty in_progress and
\* unverified categories has been committed.
C3_Witness ==
  /\ skillFetch = "done"
  /\ IsDefined(skillInfo)
  /\ PartitionDisjointByName(Get(skillResponse).body.match)
  /\ Len(Get(skillResponse).body.match.in_progress) > 0
  /\ Len(Get(skillResponse).body.match.unverified) > 0

\* Whether the console holds the message of a failed read-side fetch.
ErrorLogged == \E i \in 1..Len(console) : console[i] = "Error fetching role details:"

\* C4: when a read-side fetch of the role detail page fails, the error is
\* logged, the slice keeps its prior value, the request is not issued again,
\* and the loading placeholder of that slice is what the mounted component
\* shows in every later state.
C4_FailedFetchStaysLoading ==
  /\ [](rolesFetch = "failed" =>
          /\ ErrorLogged
          /\ Cardinality(RequestsTo(RoleListingsInfoPath)) = 1
          /\ (page = "mounted" => RolePageShowsLoading))
  /\ [](skillFetch = "failed" =>
          /\ ErrorLogged
          /\ Cardinality(RequestsTo(SkillMatchPath)) = 1
          /\ (listing = "mounted" => RoleListingShowsLoading))
  /\ [][ /\ rolesFetch' = "failed" => data' = data
         /\ skillFetch' = "failed" => skillInfo' = skillInfo
         /\ rolesFetch = "failed" => rolesFetch' = "failed"
         /\ skillFetch = "failed" => skillFetch' = "failed" ]_vars

\* C4 witness: the skill-match fetch has failed and RoleListing, still
\* mounted, shows its placeholder.
C4_Witness ==
  skillFetch = "failed" /\ RoleListingShowsLoading /\ ErrorLogged

\* C8: every HTTP request issued by the client carries a role header.
C8_EveryRequestHasRoleHeader ==
  \A i \in 1..Len(requests) : HasHeader(requests[i], "role")

\* ------------------------------------------------------------ claims: create-role form

\* The role_listing POSTs issued so far.
PostCount == Cardinality(RequestsTo(RoleListingPath))

\* YYYY-MM-DDTHH:mm:ss: 19 characters, digits but for the separators.
MatchesIsoWithoutZone(str) ==
  /\ Len(str) = 19
  /\ \A i \in {1, 2, 3, 4, 6, 7, 9, 10, 12, 13, 15, 16, 18, 19} : IsDigit(str[i])
  /\ str[5] = "-" /\ str[8] = "-" /\ str[11] = "T" /\ str[14] = ":" /\ str[17] = ":"

\* C5: a submission of valid values produces one POST to
\* /api/role/role_listing (never more POSTs than submissions) whose
\* role_listing_open has no zone suffix and matches YYYY-MM-DDTHH:mm:ss.
C5_PostCarriesIsoDateWithoutZone ==
  /\ PostCount <= submitCount
  /\ \A i \in RequestsTo(RoleListingPath) :
       LET open == requests[i].body.role_listing_open
       IN  /\ open[Len(open)] # "Z"
           /\ MatchesIsoWithoutZone(open)

\* C6: a role_listing POST that settles with a non-success status surfaces
\* the destructive notification "Error creating role!" whose description is
\* the response's status text, and the step leaves the form values as they
\* were.
C6_FailedPostNotifiesAndKeepsForm ==
  /\ [](\A i \in 1..Len(settled) :
          (~settled[i].rejected /\ ~settled[i].ok) =>
            /\ i <= Len(toasts)
            /\ toasts[i] = [variant |-> "destructive",
                            title |-> "Error creating role!",
                            description |-> settled[i].statusText])
  /\ [][ (Len(settled') > Len(settled) /\ ~settled'[Len(settled')].ok)
           => values' = values ]_vars

\* C6 witness: a POST of a filled form has settled with status text
\* "Internal Server Error".
C6_Witness ==
  /\ \E i \in 1..Len(settled) : settled[i].statusText = "Internal Server Error"
  /\ SchemaAccepts(values)

\* C7: a step issues a role_listing POST only if the form values satisfy the
\* schema in that step; a submit attempt on values that violate it issues no
\* request at all.
C7_InvalidSubmitIssuesNoRequest ==
  [][ /\ PostCount' > PostCount => SchemaAccepts(values)
      /\ (submitCount' > submitCount /\ ~SchemaAccepts(values)) => requests' = requests
    ]_vars

\* C7 witness: a submit attempt has been made and rejected: no POST exists.
C7_Witness ==
  submitCount > 0 /\ PostCount = 0 /\ ~SchemaAccepts(values)

\* C9: a role_skills request is issued only while a role is selected: every
\* such request names a role.
C9_RoleSkillsFetchedOnlyForSelectedRole ==
  \A i \in RequestsTo(RoleSkillsPath) : requests[i].query[2] # <<>>

\* ------------------------------------------------------------ claims: data-table toolbar

\* The configured columns, searchable then filterable.
ConfiguredColumns == searchableColumns \o filterableColumns

\* C10: whatever the configuration, every control the toolbar renders belongs
\* to a column the table has, the controls are exactly the configured columns
\* the table has, and a render always completes.
C10_ControlsOnlyForTableColumns ==
  IsDefined(toolbar) =>
    LET controls == Get(toolbar).controls
    IN  /\ \A i \in 1..Len(controls) : controls[i].column \in tableColumns
        /\ Len(controls) =
             Cardinality({i \in 1..Len(ConfiguredColumns) :
                            /\ IsDefined(ConfiguredColumns[i])
                            /\ Get(ConfiguredColumns[i]) \in tableColumns})

\* C10 witness: the toolbar has rendered a control for one configured column
\* and skipped another, which the table does not have.
C10_Witness ==
  /\ IsDefined(toolbar)
  /\ Len(Get(toolbar).controls) > 0
  /\ \E i \in 1..Len(ConfiguredColumns) :
       /\ IsDefined(ConfiguredColumns[i])
       /\ Get(ConfiguredColumns[i]) \notin tableColumns

\* C11: the toolbar shows its Reset control exactly when at least one column
\* filter is active, and once the control has been clicked no column filter
\* is active and the control is no longer shown.
C11_ResetClearsEveryColumnFilter ==
  /\ IsDefined(toolbar) => (Get(toolbar).isFiltered <=> columnFilters # {})
  /\ toolbarHandler = "reset" => (columnFilters = {} /\ ~Get(toolbar).isFiltered)

\* C11 witness: the Reset control was clicked on a toolbar that has inputs
\* for two columns.
C11_Witness ==
  /\ toolbarHandler = "reset"
  /\ Len(Get(toolbar).controls) >= 2
  /\ \E i, j \in 1..Len(Get(toolbar).controls) :
       /\ Get(toolbar).controls[i].kind = "input"
       /\ Get(toolbar).controls[j].kind = "input"
       /\ Get(toolbar).controls[i].column # Get(toolbar).controls[j].column

\* ------------------------------------------------------------ claims: date-range picker

\* C12: whenever the value supplied from outside changes after mount, the
\* displayed range becomes the new value in that same step, whatever the
\* user had selected before.
C12_ExternalValueReplacesDisplayedRange ==
  [][pickerValue' # pickerValue => pickerDate' = pickerValue']_vars

\* C12 witness: after a selection reported through onChange, the displayed
\* range is the externally supplied value and no longer that selection.
C12_Witness ==
  /\ picker = "mounted"
  /\ onChangeCalls # <<>>
  /\ pickerDate = pickerValue
  /\ pickerDate # onChangeCalls[Len(onChangeCalls)]

\* ------------------------------------------------------------ claims: unmount

\* C13: once the role detail page is unmounted, no step changes the display
\* state of RolePage or RoleListing: a fetch that resolves later is discarded.
C13_ResolutionAfterUnmountChangesNothing ==
  [][page = "unmounted" =>
       (data' = data /\ roleInfo' = roleInfo /\ skillInfo' = skillInfo)]_vars

\* C13 witness: RoleListing was unmounted with its fetch in flight, the fetch
\* then resolved with a usable body, and skillInfo is still undefined.
C13_Witness ==
  /\ listing = "unmounted"
  /\ skillFetch = "done"
  /\ IsDefined(skillResponse)
  /\ ~IsDefined(skillInfo)

\* ------------------------------------------------------------ claims: notifications

\* C14: every settled role_listing POST has exactly one notification: the
\* "Role Successfully Created!" one if and only if the fetch resolved with an
\* ok status and a body that parses as JSON, and the destructive
\* "Error creating role!" one in every other case.
C14_OneNotificationPerSettledPost ==
  /\ Len(toasts) = Len(settled)
  /\ \A i \in 1..Len(settled) :
       LET success == ~settled[i].rejected /\ settled[i].ok /\ settled[i].jsonOk
       IN  /\ success <=> toasts[i].title = "Role Successfully Created!"
           /\ ~success <=> (toasts[i].variant = "destructive"
                            /\ toasts[i].title = "Error creating role!")

\* C14 witness: a POST has settled with an ok status and a body that does not
\* parse, and its notification is the destructive one.
C14_Witness ==
  \E i \in 1..Len(settled) :
    /\ settled[i].ok /\ ~settled[i].jsonOk
    /\ i <= Len(toasts)
    /\ toasts[i].variant = "destructive"

====
